---------------------------- MODULE Spec2Model ----------------------------
(***************************************************************************)
(* The natural-language setting-resolution engine of the Botsify MCP       *)
(* server (src/src/tools/botSettingsTools.ts): BotSettingsTools.           *)
(* smartBotSettings and its helpers normalizeText, detectIntent,           *)
(* extractValue and findSettingKey.                                        *)
(*                                                                         *)
(* Texts are TLA+ strings; a character is a string of length 1.            *)
(* Scores are exact rationals [n, d]: the rounding of JavaScript's         *)
(* doubles is not modelled.                                                *)
(* fuse.search belongs to the fuse.js library, which is not part of the    *)
(* repository: its answer for a text is an unknown but fixed list of       *)
(* catalog entries with scores, revealed the first time the text is        *)
(* searched (fuseIndex).                                                   *)
(***************************************************************************)
EXTENDS Integers, Sequences, FiniteSets, TLC

VARIABLES
    pc,         \* position of the invocation in flight, "idle" when none
    args,       \* its arguments: [text, value]
    locals,     \* its locals: normalizedText, intent, key, confidence
    result,     \* what it returned or raised
    fuseIndex,  \* the answers of the fuse index revealed so far, by text
    calls,      \* the invocations that returned or raised, oldest first
    probe,      \* the helper applied on its own: its input and what it gave
    procs,      \* the concurrent invocations, by caller
    tables,     \* the shared tables botSettingKeys and intentKeywords
    requestCounts, \* the rate limiter's map: ip -> [count, resetTime]
    now,        \* Date.now() in ms
    served,     \* what the rate limiter did with the last request
    tool,       \* the MCP tool handler in flight
    requests,   \* the requests sent to the Botsify API, oldest first
    shuttingDown, \* the flag of the graceful-shutdown handler
    process     \* the server process: signals received, close and exit calls

vars == <<pc, args, locals, result, fuseIndex, calls, probe, procs, tables,
          requestCounts, now, served, tool, requests, shuttingDown, process>>

\* the state of the resolution engine run by one caller at a time
engineVars == <<pc, args, locals, result, fuseIndex, calls>>

\* the state smartBotSettings, run by one caller at a time, leaves alone
restVars == <<probe, procs, tables, requestCounts, now, served, tool, requests,
              shuttingDown, process>>

\* the state of the rate limiter
httpVars == <<requestCounts, now, served>>

\* the state of the MCP tool handlers
toolVars == <<tool, requests>>

\* the state of the graceful shutdown
shutdownVars == <<shuttingDown, process>>

-----------------------------------------------------------------------------
(* Optional values: null / undefined is None, a present x is Some(x).      *)

None == <<>>

Some(x) == <<x>>

-----------------------------------------------------------------------------
(* Characters and JavaScript's string primitives.                          *)

Chr(s, i) == SubSeq(s, i, i)

UpperCase == "ABCDEFGHIJKLMNOPQRSTUVWXYZ"

LowerCase == "abcdefghijklmnopqrstuvwxyz"

Digits == "0123456789"

CharsOf(s) == {Chr(s, p) : p \in 1..Len(s)}

\* \w of a regular expression: [A-Za-z0-9_]
WordChars == CharsOf(UpperCase) \cup CharsOf(LowerCase) \cup CharsOf(Digits) \cup {"_"}

IsWordChar(c) == c \in WordChars

\* \s of a regular expression (the white space of the ASCII range)
IsSpace(c) == c \in {" ", "\t", "\n", "\r", "\f"}

\* the lower-case letter of each upper-case letter
LowerOf == [c \in CharsOf(UpperCase) |->
               Chr(LowerCase, CHOOSE p \in 1..Len(UpperCase) : Chr(UpperCase, p) = c)]

\* String.prototype.toLowerCase on one character
LowerChar(c) == IF c \in DOMAIN LowerOf THEN LowerOf[c] ELSE c

\* the concatenation of f[lo], ..., f[hi]
RECURSIVE Concat(_, _, _)
Concat(f, lo, hi) ==
    IF lo > hi THEN ""
    ELSE IF lo = hi THEN f[lo]
    ELSE LET mid == (lo + hi) \div 2
         IN  Concat(f, lo, mid) \o Concat(f, mid + 1, hi)

\* String.prototype.toLowerCase
toLowerCase(s) == Concat([p \in 1..Len(s) |-> LowerChar(Chr(s, p))], 1, Len(s))

\* .replace(/[\-_]/g, ' ')
ReplaceHyphens(s) ==
    Concat([p \in 1..Len(s) |->
               IF Chr(s, p) \in {"-", "_"} THEN " " ELSE Chr(s, p)], 1, Len(s))

\* .replace(/[^\w\s]/gi, '')
StripPunctuation(s) ==
    Concat([p \in 1..Len(s) |->
               IF IsWordChar(Chr(s, p)) \/ IsSpace(Chr(s, p)) THEN Chr(s, p) ELSE ""],
           1, Len(s))

\* .replace(/\s+/g, ' '): each maximal run of white space becomes one space
CollapseSpaces(s) ==
    Concat([p \in 1..Len(s) |->
               IF ~IsSpace(Chr(s, p)) THEN Chr(s, p)
               ELSE IF p > 1 /\ IsSpace(Chr(s, p - 1)) THEN "" ELSE " "],
           1, Len(s))

\* String.prototype.trim
trim(s) ==
    LET solid == {p \in 1..Len(s) : ~IsSpace(Chr(s, p))}
    IN  IF solid = {} THEN ""
        ELSE SubSeq(s, CHOOSE p \in solid : \A q \in solid : p <= q,
                       CHOOSE p \in solid : \A q \in solid : q <= p)

\* String.prototype.includes
includes(s, sub) ==
    \E p \in 1..(Len(s) - Len(sub) + 1) : SubSeq(s, p, p + Len(sub) - 1) = sub

\* s.split(/\s+/): the pieces between maximal runs of white space; a string
\* that starts or ends with white space yields an empty first or last piece,
\* and "" yields <<"">>.
split(s) ==
    LET starts == {p \in 1..Len(s) :
                      ~IsSpace(Chr(s, p)) /\ (p = 1 \/ IsSpace(Chr(s, p - 1)))}
        EndOf(p) == CHOOSE q \in p..Len(s) :
                        /\ \A r \in p..q : ~IsSpace(Chr(s, r))
                        /\ (q = Len(s) \/ IsSpace(Chr(s, q + 1)))
        Nth(k) == CHOOSE p \in starts : Cardinality({q \in starts : q < p}) = k - 1
        words == [k \in 1..Cardinality(starts) |-> SubSeq(s, Nth(k), EndOf(Nth(k)))]
    IN  IF s = "" THEN <<"">>
        ELSE (IF IsSpace(Chr(s, 1)) THEN <<"">> ELSE <<>>)
             \o words
             \o (IF IsSpace(Chr(s, Len(s))) THEN <<"">> ELSE <<>>)

\* Array.prototype.join(' ')
RECURSIVE join(_)
join(parts) ==
    IF parts = <<>> THEN ""
    ELSE IF Len(parts) = 1 THEN parts[1]
    ELSE parts[1] \o " " \o join(Tail(parts))

Range(f) == {f[i] : i \in DOMAIN f}

-----------------------------------------------------------------------------
(* normalizeText                                                           *)

\* mutant: the punctuation is stripped before the hyphens are replaced
normalizeTextStripFirst(text) ==
    CHOOSE normalized \in
        {trim(collapsed) : collapsed \in
            {CollapseSpaces(spaced) : spaced \in
                {ReplaceHyphens(stripped) : stripped \in
                    {StripPunctuation(lowered) : lowered \in {toLowerCase(text)}}}}} :
        TRUE

\* mutant: the runs of white space are not collapsed
normalizeTextNoCollapse(text) ==
    CHOOSE normalized \in
        {trim(stripped) : stripped \in
            {StripPunctuation(spaced) : spaced \in
                {ReplaceHyphens(lowered) : lowered \in {toLowerCase(text)}}}} :
        TRUE

\* (each step is bound to its value before the next one reads it)
normalizeText(text) ==
    CHOOSE normalized \in
        {trim(collapsed) : collapsed \in
            {CollapseSpaces(stripped) : stripped \in
                {StripPunctuation(spaced) : spaced \in
                    {ReplaceHyphens(lowered) : lowered \in {toLowerCase(text)}}}}} :
        TRUE


-----------------------------------------------------------------------------
(* The shared tables: the setting catalog and the intent keywords.         *)

\* The entries of botSettingKeys at lines 21, 22, 36, 45 and 117, in the
\* catalog's order: two entries with a description and keywords (they share
\* the keyword 'chatbot color') and three with neither, the last one with a
\* key of six words that holds the trigger phrases 'delete' and 'get'.
botSettingKeys ==
    << [key |-> "website-chatbot-primary-color",
        description |-> "Primary color of the website chatbot",
        keywords |-> <<"main color", "primary", "theme color", "chatbot color">>],
       [key |-> "website-chatbot-secondary-color",
        description |-> "Secondary color of the website chatbot",
        keywords |-> <<"secondary", "accent color", "alternate color", "chatbot color">>],
       [key |-> "human-help-form", description |-> "", keywords |-> <<>>],
       [key |-> "language", description |-> "", keywords |-> <<>>],
       [key |-> "delete-user-conversation-on-get-started", description |-> "",
        keywords |-> <<>>] >>

\* Object.entries(intentKeywords): the categories in declaration order
intentKeywords ==
    << <<"get", <<"what is", "get", "show me", "display", "see", "status",
                  "current value">> >>,
       <<"update", <<"change", "set", "update", "make", "turn on", "turn off",
                     "enable", "disable">> >>,
       <<"delete", <<"delete", "remove", "clear", "unset">> >> >>

-----------------------------------------------------------------------------
(* detectIntent: the first category, in declaration order, one of whose    *)
(* phrases the text includes; "null" when there is none.                   *)

RECURSIVE FirstIncluded(_, _)
FirstIncluded(normalizedText, keywords) ==
    IF keywords = <<>> THEN FALSE
    ELSE IF includes(normalizedText, Head(keywords)) THEN TRUE
    ELSE FirstIncluded(normalizedText, Tail(keywords))

RECURSIVE DetectFrom(_, _)
DetectFrom(normalizedText, entries) ==
    IF entries = <<>> THEN "null"
    ELSE IF FirstIncluded(normalizedText, Head(entries)[2]) THEN Head(entries)[1]
    ELSE DetectFrom(normalizedText, Tail(entries))

\* mutant: a text without any trigger phrase is taken for a get
detectIntentDefaultGet(normalizedText) ==
    IF DetectFrom(normalizedText, intentKeywords) = "null" THEN "get"
    ELSE DetectFrom(normalizedText, intentKeywords)

\* the least position at which a phrase of the category occurs, 0 for none
FirstPosition(normalizedText, keywords) ==
    LET at == {p \in 1..Len(normalizedText) :
                  \E k \in DOMAIN keywords :
                     /\ p + Len(keywords[k]) - 1 <= Len(normalizedText)
                     /\ SubSeq(normalizedText, p, p + Len(keywords[k]) - 1) = keywords[k]}
    IN  IF at = {} THEN 0 ELSE CHOOSE p \in at : \A q \in at : p <= q

\* mutant: the category whose phrase comes first in the text wins
detectIntentByPosition(normalizedText) ==
    LET found == {c \in DOMAIN intentKeywords :
                     FirstPosition(normalizedText, intentKeywords[c][2]) > 0}
    IN  IF found = {} THEN "null"
        ELSE intentKeywords[CHOOSE c \in found : \A o \in found :
                \/ FirstPosition(normalizedText, intentKeywords[c][2])
                      < FirstPosition(normalizedText, intentKeywords[o][2])
                \/ (FirstPosition(normalizedText, intentKeywords[c][2])
                      = FirstPosition(normalizedText, intentKeywords[o][2]) /\ c <= o)][1]

detectIntent(normalizedText) == DetectFrom(normalizedText, intentKeywords)

-----------------------------------------------------------------------------
(* extractValue                                                            *)

\* [\w\s-]
IsValueChar(c) == IsWordChar(c) \/ IsSpace(c) \/ c = "-"

\* the longest prefix of s made of value characters: the greedy [\w\s-]+
ValueRun(s) ==
    LET stops == {p \in 1..Len(s) : ~IsValueChar(Chr(s, p))}
    IN  IF stops = {} THEN s
        ELSE SubSeq(s, 1, (CHOOSE p \in stops : \A q \in stops : p <= q) - 1)

\* s.match(/<prefix>([\w\s-]+)/): the capture of the leftmost match, or None
RegexCapture(s, prefix) ==
    LET starts == {p \in 1..(Len(s) - Len(prefix)) :
                      /\ SubSeq(s, p, p + Len(prefix) - 1) = prefix
                      /\ IsValueChar(Chr(s, p + Len(prefix)))}
    IN  IF starts = {} THEN None
        ELSE LET first == CHOOSE p \in starts : \A q \in starts : p <= q
             IN  Some(ValueRun(SubSeq(s, first + Len(prefix), Len(s))))

patterns == <<" to ", "= ", " as ">>

RECURSIVE ExtractFrom(_, _)
ExtractFrom(normalizedText, ps) ==
    IF ps = <<>> THEN None
    ELSE LET match == RegexCapture(normalizedText, Head(ps))
         IN  IF match # None /\ match[1] # ""
             THEN Some(trim(match[1]))
             ELSE ExtractFrom(normalizedText, Tail(ps))

\* mutant: every pattern is tried and the last one that matches wins
extractValueLastWins(normalizedText) ==
    LET found == {p \in DOMAIN patterns :
                     RegexCapture(normalizedText, patterns[p]) # None}
    IN  IF found = {} THEN None
        ELSE LET last == CHOOSE p \in found : \A q \in found : q <= p
             IN  Some(trim(RegexCapture(normalizedText, patterns[last])[1]))

extractValue(normalizedText) == ExtractFrom(normalizedText, patterns)

-----------------------------------------------------------------------------
(* Scores: exact rationals in lowest terms.                                *)

\* (the operands are bound to their values before they are used)
RECURSIVE GCD(_, _)
GCD(a, b) ==
    IF b = 0 THEN a
    ELSE CHOOSE g \in {GCD(y, x % y) : x \in {a}, y \in {b}} : TRUE

Rat(n, d) ==
    CHOOSE r \in {[n |-> x \div g, d |-> y \div g] :
                     x \in {n}, y \in {d}, g \in {GCD(n, d)}} : TRUE

Zero == Rat(0, 1)

One == Rat(1, 1)

RAdd(x, y) ==
    CHOOSE r \in {Rat(a.n * b.d + b.n * a.d, a.d * b.d) : a \in {x}, b \in {y}} : TRUE

RSub(x, y) ==
    CHOOSE r \in {Rat(a.n * b.d - b.n * a.d, a.d * b.d) : a \in {x}, b \in {y}} : TRUE

RHalf(x) == CHOOSE r \in {Rat(a.n, 2 * a.d) : a \in {x}} : TRUE

RLess(x, y) == \E a \in {x}, b \in {y} : a.n * b.d < b.n * a.d

\* the boost of a partial match, 0.2
PartialMatchBoost == Rat(1, 5)

\* the confidence threshold of smartBotSettings, 0.5
ConfidenceThreshold == Rat(1, 2)

-----------------------------------------------------------------------------
(* findSettingKey                                                          *)

\* mutant: the word set is shared by the invocations and never cleared
InputWordsShared(normalizedText) ==
    Range(split(normalizedText))
    \cup UNION {Range(split(normalizeText(calls[c].args.text))) : c \in DOMAIN calls}

\* new Set(normalizedText.split(/\s+/))
InputWords(normalizedText) == Range(split(normalizedText))

\* the words of an entry: key, description and keywords, each normalized,
\* joined by single spaces and split at white space
EntryWords(entry) ==
    LET fields == <<entry.key, entry.description>> \o entry.keywords
    IN  split(join([i \in DOMAIN fields |-> normalizeText(fields[i])]))

\* the words of every catalog entry, by index
entryWords == [e \in DOMAIN botSettingKeys |-> EntryWords(botSettingKeys[e])]

\* mutant: the overlap is divided by the number of input words
OverlapScorePerInputWord(idx, inputWords) ==
    LET keywords == entryWords[idx]
        count == Cardinality({i \in DOMAIN keywords : keywords[i] \in inputWords})
    IN  Rat(count, Cardinality(inputWords))

\* overlapScores[idx]: the share of the entry's words that are input words
OverlapScore(idx, inputWords) ==
    LET keywords == entryWords[idx]
        count == Cardinality({i \in DOMAIN keywords : keywords[i] \in inputWords})
    IN  Rat(count, Len(keywords))

\* botSettingKeys.findIndex(e => e.key === key), -1 when there is none
FindIndex(key) ==
    IF \E i \in DOMAIN botSettingKeys : botSettingKeys[i].key = key
    THEN CHOOSE i \in DOMAIN botSettingKeys :
            /\ botSettingKeys[i].key = key
            /\ \A j \in 1..(i - 1) : botSettingKeys[j].key # key
    ELSE -1

\* the words of the normalized key of every catalog entry, by index
keyWords == [e \in DOMAIN botSettingKeys |-> split(normalizeText(botSettingKeys[e].key))]

\* every substring of s, the empty one included
Substrings(s) == {SubSeq(s, p, q) : p \in 1..(Len(s) + 1), q \in 0..Len(s)}

\* the substrings of the words of every normalized key, by index
keyWordParts == [e \in DOMAIN botSettingKeys |->
                    UNION {Substrings(keyWords[e][k]) : k \in DOMAIN keyWords[e]}]

\* some input word is a substring of some word of the normalized key:
\* inputWords.some(word => keyWords.some(k => k.includes(word)))
PartialMatch(idx, inputWords) == inputWords \cap keyWordParts[idx] # {}

\* mutant: the boost is added after the halving
HybridScoreBoostAfterHalving(hit, inputWords) ==
    LET idx == FindIndex(hit.item.key)
        fuseScore == RSub(One, hit.score)
        overlap == IF idx = -1 THEN Zero
                   ELSE OverlapScore(idx, inputWords)
    IN  IF idx # -1 /\ PartialMatch(idx, inputWords)
        THEN RAdd(RHalf(RAdd(fuseScore, overlap)), PartialMatchBoost)
        ELSE RHalf(RAdd(fuseScore, overlap))

\* the hybrid score of one search hit
HybridScore(hit, inputWords) ==
    LET idx == FindIndex(hit.item.key)
        fuseScore == RSub(One, hit.score)
        overlap == IF idx = -1 THEN Zero
                   ELSE OverlapScore(idx, inputWords)
    IN  IF idx # -1 /\ PartialMatch(idx, inputWords)
        THEN RHalf(RAdd(RAdd(fuseScore, overlap), PartialMatchBoost))
        ELSE RHalf(RAdd(fuseScore, overlap))

\* mutant: a later hit with an equal hybrid score replaces the best one
RECURSIVE SelectBestLastWins(_, _, _)
SelectBestLastWins(fuseResults, inputWords, best) ==
    IF fuseResults = <<>> THEN best
    ELSE LET hit == Head(fuseResults)
             hybrid == HybridScore(hit, inputWords)
         IN  IF best.bestIdx = -1 \/ ~RLess(hybrid, best.bestScore)
             THEN SelectBestLastWins(Tail(fuseResults), inputWords,
                                     [bestIdx |-> FindIndex(hit.item.key),
                                      bestScore |-> hybrid, confidence |-> hybrid])
             ELSE SelectBestLastWins(Tail(fuseResults), inputWords, best)

\* the selection loop over the hits, in search order: best is
\* [bestIdx, bestScore, confidence], bestIdx = -1 standing for the initial
\* bestScore of -Infinity
RECURSIVE SelectBest(_, _, _)
SelectBest(fuseResults, inputWords, best) ==
    IF fuseResults = <<>> THEN best
    ELSE LET hit == Head(fuseResults)
             hybrid == HybridScore(hit, inputWords)
         IN  IF best.bestIdx = -1 \/ RLess(best.bestScore, hybrid)
             THEN SelectBest(Tail(fuseResults), inputWords,
                             [bestIdx |-> FindIndex(hit.item.key),
                              bestScore |-> hybrid, confidence |-> hybrid])
             ELSE SelectBest(Tail(fuseResults), inputWords, best)

\* fuseResults.slice(0, 3).map(r => r.item?.key)
TopKeys(fuseResults) ==
    [i \in 1..(IF Len(fuseResults) < 3 THEN Len(fuseResults) ELSE 3) |->
        fuseResults[i].item.key]

\* mutant: without a hit the first entry of the catalog is returned
findSettingKeyFallback(fuseResults, inputWords) ==
    LET best == SelectBest(fuseResults, inputWords,
                           [bestIdx |-> -1, bestScore |-> Zero, confidence |-> Zero])
    IN  IF best.bestIdx = -1
        THEN [key |-> Some(botSettingKeys[1].key), confidence |-> One,
              possibleMatches |-> None]
        ELSE [key |-> Some(botSettingKeys[best.bestIdx].key),
              confidence |-> best.confidence,
              possibleMatches |-> None]

\* findSettingKey, given what fuse.search(text) answered and the input words
findSettingKey(fuseResults, inputWords) ==
    LET best == SelectBest(fuseResults, inputWords,
                           [bestIdx |-> -1, bestScore |-> Zero, confidence |-> Zero])
    IN  IF best.bestIdx = -1
        THEN [key |-> None, confidence |-> Zero,
              possibleMatches |-> Some(TopKeys(fuseResults))]
        ELSE [key |-> Some(botSettingKeys[best.bestIdx].key),
              confidence |-> best.confidence,
              possibleMatches |-> None]

-----------------------------------------------------------------------------
(* The bounds of the model.                                                *)

\* the most hits the fuse index answers with, in Spec
MaxHits == 2

\* the most hits the fuse index answers with, in SpecHist
HistMaxHits == 1

\* the most invocations of one behaviour of SpecHist
MaxCalls == 3

\* the scores (0 is a perfect match) the fuse index gives a hit
FuseScores == {Rat(0, 1), Rat(1, 5), Rat(3, 5)}

\* the scores it gives in SpecHist
HistFuseScores == {Rat(1, 5), Rat(3, 5)}

\* every keyword of every catalog entry
AllKeywords == UNION {Range(botSettingKeys[e].keywords) : e \in DOMAIN botSettingKeys}

\* the instruction 'set <keyword> to X'
SetKeywordText(k) == "set " \o k \o " to X"

\* the texts smartBotSettings is invoked with, in Spec
Texts ==
    {SetKeywordText(k) : k \in AllKeywords}
    \cup {"", " ", "banana parade", "show me how to delete this",
          "delete this and show me", "remove the target", "clear the language",
          "unset Has_Sound", "change the color to #112233",
          "set it as dark mode", "SET Main-Color TO Dark_Red", "make hum = 5",
          "set hum to X", "what is the language", "to be as is",
          "delete-user-conversation-on-get-started",
          "Make it as 1_2 to 3-4  as 5 to 6"}

\* the explicit value arguments, None when the argument is left out
Values == {None, Some(""), Some("Red")}

\* the texts and values of SpecHist
HistTexts == {"set hum to X", "clear the language"}

HistValues == {None, Some("Red")}

\* mutant: fuse.search does not come back
FuseAnswersNever(pool, scores, maxHits) == {}

\* the answers fuse.search can give: at most maxHits hits in any order, each
\* a catalog entry of pool with a score, no entry twice
FuseAnswers(pool, scores, maxHits) ==
    LET Found == {[item |-> botSettingKeys[e], score |-> sc] : e \in pool, sc \in scores}
    IN  UNION {{r \in [1..len -> Found] :
                   \A a, b \in 1..len : a # b => r[a].item # r[b].item}
               : len \in 0..maxHits}

SpecAnswers == FuseAnswers(DOMAIN botSettingKeys, FuseScores, MaxHits)

HistAnswers == FuseAnswers({3, 4}, HistFuseScores, HistMaxHits)

-----------------------------------------------------------------------------
(* smartBotSettings                                                        *)

NoLocals == [normalizedText |-> "", intent |-> "null", extractedValue |-> None,
             key |-> None, confidence |-> Zero]

NoResult == [kind |-> "none"]

\* mutant: the schema without its .min(1)
SchemaAcceptsAny(a) == Len(a.text) >= 0

\* mutant: the schema asking for a text that is not blank
SchemaAcceptsTrimmed(a) == Len(trim(a.text)) >= 1

\* SmartBotSettingsSchema: text is a string of at least one character, value
\* an optional string
SchemaAccepts(a) == Len(a.text) >= 1

\* the ZodError of the schema, rethrown as a ValidationError
ValidationError == [kind |-> "raised", error |-> "ValidationError",
                    message |-> "Invalid input parameters"]

\* mutant: an unrecognised intent is answered with the explicit value
NoIntentResultKeepsValue ==
    [kind |-> "returned", success |-> FALSE, intent |-> "null", key |-> None,
     value |-> args.value, confidence |-> Zero, possibleMatches |-> None,
     message |-> "Unable to determine user intent"]

\* the result of an unrecognised intent
NoIntentResult ==
    [kind |-> "returned", success |-> FALSE, intent |-> "null", key |-> None,
     value |-> None, confidence |-> Zero, possibleMatches |-> None,
     message |-> "Unable to determine user intent"]

\* mutant: the value is searched for in the text whatever the intent is
ResolveValueAnyIntent(explicitValue, intent, normalizedText) ==
    IF explicitValue = None \/ explicitValue = Some("")
    THEN extractValue(normalizedText)
    ELSE explicitValue

\* mutant: the value is extracted from the text as the caller wrote it
ResolveValueFromRawText(explicitValue, intent, normalizedText) ==
    IF intent = "update" /\ (explicitValue = None \/ explicitValue = Some(""))
    THEN extractValue(args.text)
    ELSE explicitValue

\* mutant: a value found in the text of an update replaces the explicit one
ResolveValueExtractFirst(explicitValue, intent, normalizedText) ==
    IF intent = "update" /\ extractValue(normalizedText) # None
    THEN extractValue(normalizedText)
    ELSE explicitValue

\* extractedValue: the explicit value, or for an update without one (an empty
\* string is falsy) the value extracted from the normalized text
ResolveValue(explicitValue, intent, normalizedText) ==
    IF intent = "update" /\ (explicitValue = None \/ explicitValue = Some(""))
    THEN extractValue(normalizedText)
    ELSE explicitValue

\* mutant: a confidence of exactly 0.5 is rejected too
LowConfidenceInclusive(key, confidence) ==
    key = None \/ key = Some("") \/ ~RLess(ConfidenceThreshold, confidence)

\* !key || confidence < 0.5
LowConfidence(key, confidence) ==
    key = None \/ key = Some("") \/ RLess(confidence, ConfidenceThreshold)

\* the result of a low confidence: possibleMatches || []
LowConfidenceResult(intent, extractedValue, match) ==
    [kind |-> "returned", success |-> FALSE, intent |-> intent, key |-> None,
     value |-> extractedValue, confidence |-> match.confidence,
     possibleMatches |-> IF match.possibleMatches = None \/ match.possibleMatches = Some(<<>>)
                         THEN Some(<<>>) ELSE match.possibleMatches,
     message |-> "Low confidence in key match"]

SuccessResult(l) ==
    [kind |-> "returned", success |-> TRUE, intent |-> l.intent, key |-> l.key,
     value |-> l.extractedValue, confidence |-> l.confidence,
     possibleMatches |-> None,
     message |-> "Key and value resolved successfully"]

\* no helper was applied on its own yet
NoProbe == [op |-> "none"]

\* the callers that invoke smartBotSettings concurrently
MaxProcs == 2

Procs == 1..MaxProcs

\* a caller without an invocation
IdleProc == [pc |-> "idle", args |-> [text |-> "", value |-> None],
             locals |-> NoLocals, result |-> NoResult, overlapped |-> FALSE,
             settings |-> None]

\* no request went through the rate limiter yet
NotServed == [ip |-> "", status |-> 0]

\* no tool handler runs
NoTool == [name |-> "none", pc |-> "idle", args |-> <<>>, member |-> None,
           steps |-> <<>>, response |-> ""]

\* the process before main() has set up the shutdown handlers
NotStarted == [handlers |-> FALSE, server |-> FALSE, signals |-> <<>>,
               closeCalls |-> 0, closePending |-> FALSE, exitCalls |-> 0]

Init ==
    /\ pc = "idle"
    /\ args = [text |-> "", value |-> None]
    /\ locals = NoLocals
    /\ result = NoResult
    /\ fuseIndex = <<>>
    /\ calls = <<>>
    /\ probe = NoProbe
    /\ procs = [p \in Procs |-> IdleProc]
    /\ tables = [botSettingKeys |-> botSettingKeys, intentKeywords |-> intentKeywords]
    /\ requestCounts = <<>>
    /\ now = 0
    /\ served = NotServed
    /\ tool = NoTool
    /\ requests = <<>>
    /\ shuttingDown = FALSE
    /\ process = NotStarted

\* a caller invokes smartBotSettings({text, value})
Invoke(text, value) ==
    /\ pc = "idle"
    /\ pc' = "Start"
    /\ args' = [text |-> text, value |-> value]
    /\ locals' = NoLocals
    /\ result' = NoResult
    /\ UNCHANGED <<fuseIndex, calls>>
    /\ UNCHANGED restVars

\* mutant: the test for an unrecognised intent comes after the key matching
ClassifyWithoutEarlyReturn ==
    /\ pc = "Start"
    /\ IF ~SchemaAccepts(args)
       THEN /\ pc' = "Raised"
            /\ result' = ValidationError
            /\ UNCHANGED locals
       ELSE \E normalizedText \in {normalizeText(args.text)} :
            \E intent \in {detectIntent(normalizedText)} :
                /\ locals' = [locals EXCEPT !.normalizedText = normalizedText,
                                            !.intent = intent]
                /\ pc' = "IntentResolved" /\ UNCHANGED result
    /\ UNCHANGED <<args, fuseIndex, calls>>
    /\ UNCHANGED restVars

\* validation, normalization and intent detection
Classify ==
    /\ pc = "Start"
    /\ IF ~SchemaAccepts(args)
       THEN /\ pc' = "Raised"
            /\ result' = ValidationError
            /\ UNCHANGED locals
       ELSE \E normalizedText \in {normalizeText(args.text)} :
            \E intent \in {detectIntent(normalizedText)} :
                /\ locals' = [locals EXCEPT !.normalizedText = normalizedText,
                                            !.intent = intent]
                /\ IF intent = "null"
                   THEN pc' = "FailedNoIntent" /\ result' = NoIntentResult
                   ELSE pc' = "IntentResolved" /\ UNCHANGED result
    /\ UNCHANGED <<args, fuseIndex, calls>>
    /\ UNCHANGED restVars

\* value extraction and key matching; fuse.search(text) answers as it did
\* before for the same text, and with any of the answers otherwise
Match(answers) ==
    /\ pc = "IntentResolved"
    /\ \E extractedValue \in {ResolveValue(args.value, locals.intent,
                                             locals.normalizedText)},
          inputWords \in {InputWords(locals.normalizedText)},
          fuseResults \in (IF args.text \in DOMAIN fuseIndex
                           THEN {fuseIndex[args.text]} ELSE answers) :
          \E match \in {findSettingKey(fuseResults, inputWords)} :
              /\ fuseIndex' = (args.text :> fuseResults) @@ fuseIndex
              /\ locals' = [locals EXCEPT !.extractedValue = extractedValue,
                                          !.key = match.key,
                                          !.confidence = match.confidence]
              /\ IF LowConfidence(match.key, match.confidence)
                 THEN /\ pc' = "FailedLowConfidence"
                      /\ result' = LowConfidenceResult(locals.intent, extractedValue, match)
                 ELSE /\ pc' = "KeyResolved"
                      /\ UNCHANGED result
    /\ UNCHANGED <<args, calls>>
    /\ UNCHANGED restVars

\* the successful result is assembled
Assemble ==
    /\ pc = "KeyResolved"
    /\ pc' = "Done"
    /\ result' = SuccessResult(locals)
    /\ UNCHANGED <<args, locals, fuseIndex, calls>>
    /\ UNCHANGED restVars

Finished == pc \in {"Done", "FailedNoIntent", "FailedLowConfidence", "Raised"}

\* the invocation returns or raises
Return ==
    /\ Finished
    /\ pc' = "idle"
    /\ calls' = Append(calls, [args |-> args, result |-> result])
    /\ UNCHANGED <<args, locals, result, fuseIndex>>
    /\ UNCHANGED restVars

\* one invocation, with any text and value of the corpus
Next ==
    \/ calls = <<>> /\ \E text \in Texts, value \in Values : Invoke(text, value)
    \/ Classify
    \/ Match(SpecAnswers)
    \/ Assemble
    \/ Return

Spec == Init /\ [][Next]_vars

\* up to MaxCalls invocations one after the other
NextHist ==
    \/ Len(calls) < MaxCalls
          /\ \E text \in HistTexts, value \in HistValues : Invoke(text, value)
    \/ Classify
    \/ Match(HistAnswers)
    \/ Assemble
    \/ Return

SpecHist == Init /\ [][NextHist]_vars

\* the most invocations of one behaviour of SpecLive
MaxLiveCalls == 2

\* no explicit value: the value is searched for in the text
LiveValues == {None}

\* the texts of SpecLive: the texts of SpecHist, a text the schema rejects
\* and a text without a trigger phrase
LiveTexts == HistTexts \cup {"", "banana parade"}

NextLive ==
    \/ Len(calls) < MaxLiveCalls
          /\ \E text \in LiveTexts, value \in LiveValues : Invoke(text, value)
    \/ Classify
    \/ Match(HistAnswers)
    \/ Assemble
    \/ Return

\* smartBotSettings has no await: once invoked, its body runs to its return
\* or throw without waiting for anything
SpecLive ==
    /\ Init /\ [][NextLive]_vars
    /\ WF_vars(Classify) /\ WF_vars(Match(HistAnswers))
    /\ WF_vars(Assemble) /\ WF_vars(Return)

-----------------------------------------------------------------------------
(* Concurrent callers: every caller runs its own invocation, the steps of  *)
(* the invocations interleave in any order (more orders than the single    *)
(* thread of JavaScript allows, where a body without await is one step).   *)

InFlight(q) == procs[q].pc \in {"Start", "IntentResolved", "KeyResolved"}

\* caller p calls getAvailableSettings(): a copy of the catalog array
GetAvailableSettings(p) ==
    /\ procs[p].pc = "idle" /\ procs[p].settings = None
    /\ procs' = [procs EXCEPT ![p].settings = Some(tables.botSettingKeys)]
    /\ UNCHANGED <<engineVars, probe, tables, httpVars, toolVars, shutdownVars>>

\* caller p invokes smartBotSettings({text, value})
InvokeBy(p, text, value) ==
    /\ procs[p].pc = "idle"
    /\ procs' = [procs EXCEPT ![p].pc = "Start",
                              ![p].args = [text |-> text, value |-> value],
                              ![p].overlapped = \E q \in Procs \ {p} : InFlight(q)]
    /\ UNCHANGED <<engineVars, probe, tables, httpVars, toolVars, shutdownVars>>

\* mutant: normalizedText and intent are module-level variables that every
\* invocation in flight shares
ClassifyByShared(p) ==
    /\ procs[p].pc = "Start"
    /\ IF ~SchemaAccepts(procs[p].args)
       THEN procs' = [procs EXCEPT ![p].pc = "Raised", ![p].result = ValidationError]
       ELSE \E normalizedText \in {normalizeText(procs[p].args.text)} :
            \E intent \in {detectIntent(normalizedText)} :
               procs' = [q \in Procs |->
                           IF q = p
                           THEN [procs[q] EXCEPT
                                    !.locals.normalizedText = normalizedText,
                                    !.locals.intent = intent,
                                    !.pc = IF intent = "null" THEN "FailedNoIntent"
                                           ELSE "IntentResolved",
                                    !.result = IF intent = "null" THEN NoIntentResult
                                               ELSE NoResult]
                           ELSE IF InFlight(q)
                           THEN [procs[q] EXCEPT
                                    !.locals.normalizedText = normalizedText,
                                    !.locals.intent = intent]
                           ELSE procs[q]]
    /\ UNCHANGED <<engineVars, probe, tables, httpVars, toolVars, shutdownVars>>

\* validation, normalization and intent detection of the invocation of p
ClassifyBy(p) ==
    /\ procs[p].pc = "Start"
    /\ IF ~SchemaAccepts(procs[p].args)
       THEN procs' = [procs EXCEPT ![p].pc = "Raised", ![p].result = ValidationError]
       ELSE \E normalizedText \in {normalizeText(procs[p].args.text)} :
            \E intent \in {detectIntent(normalizedText)} :
               procs' = [procs EXCEPT
                            ![p].locals.normalizedText = normalizedText,
                            ![p].locals.intent = intent,
                            ![p].pc = IF intent = "null" THEN "FailedNoIntent"
                                      ELSE "IntentResolved",
                            ![p].result = IF intent = "null" THEN NoIntentResult
                                          ELSE NoResult]
    /\ UNCHANGED <<engineVars, probe, tables, httpVars, toolVars, shutdownVars>>

\* value extraction and key matching of the invocation of p
MatchBy(p, answers) ==
    /\ procs[p].pc = "IntentResolved"
    /\ \E extractedValue \in {ResolveValue(procs[p].args.value, procs[p].locals.intent,
                                             procs[p].locals.normalizedText)},
          inputWords \in {InputWords(procs[p].locals.normalizedText)},
          fuseResults \in (IF procs[p].args.text \in DOMAIN fuseIndex
                           THEN {fuseIndex[procs[p].args.text]} ELSE answers) :
          \E match \in {findSettingKey(fuseResults, inputWords)} :
              /\ fuseIndex' = (procs[p].args.text :> fuseResults) @@ fuseIndex
              /\ procs' = [procs EXCEPT
                             ![p].locals.extractedValue = extractedValue,
                             ![p].locals.key = match.key,
                             ![p].locals.confidence = match.confidence,
                             ![p].pc = IF LowConfidence(match.key, match.confidence)
                                       THEN "FailedLowConfidence" ELSE "KeyResolved",
                             ![p].result =
                                 IF LowConfidence(match.key, match.confidence)
                                 THEN LowConfidenceResult(procs[p].locals.intent,
                                                          extractedValue, match)
                                 ELSE NoResult]
    /\ UNCHANGED <<pc, args, locals, result, calls, probe, tables,
                   httpVars, toolVars, shutdownVars>>

\* the successful result of the invocation of p
AssembleBy(p) ==
    /\ procs[p].pc = "KeyResolved"
    /\ procs' = [procs EXCEPT ![p].pc = "Done",
                              ![p].result = SuccessResult(procs[p].locals)]
    /\ UNCHANGED <<engineVars, probe, tables, httpVars, toolVars, shutdownVars>>

\* the value arguments of the concurrent callers
ConcValues == {None}

\* the answers of fuse.search to the concurrent callers: no hit, or one hit
\* of score 0.2 for an entry without keywords
ConcAnswers ==
    {<<>>} \cup {<<[item |-> botSettingKeys[e], score |-> Rat(1, 5)]>> : e \in {3, 4}}

NextConc ==
    \E p \in Procs :
       \/ GetAvailableSettings(p)
       \/ \E text \in HistTexts, value \in ConcValues : InvokeBy(p, text, value)
       \/ ClassifyBy(p)
       \/ MatchBy(p, ConcAnswers)
       \/ AssembleBy(p)

SpecConc == Init /\ [][NextConc]_vars

-----------------------------------------------------------------------------
(* The rate limiting middleware of the HTTP server. Time passes up to the  *)
(* reset time of a window or one millisecond beyond it.                    *)

RATE_LIMIT_POINTS == 100

RATE_LIMIT_DURATION == 60000

\* the requests counted in all windows together
MaxRequests == 101

\* the clock runs up to MaxPast ms after the reset time of the first windows
MaxPast == 1

\* req.ip of the requests: an address, or undefined
ReqIps == {Some("10.0.0.1"), None}

\* req.ip || 'unknown'
ClientIp(reqIp) == IF reqIp = None \/ reqIp[1] = "" THEN "unknown" ELSE reqIp[1]

RECURSIVE TotalCount(_, _)
TotalCount(counts, ips) ==
    IF ips = {} THEN 0
    ELSE LET ip == CHOOSE i \in ips : TRUE
         IN  counts[ip].count + TotalCount(counts, ips \ {ip})

\* !userRequests || now > userRequests.resetTime
WindowOver(ip) == ip \notin DOMAIN requestCounts \/ now > requestCounts[ip].resetTime

\* mutant: the test for the limit is count > RATE_LIMIT_POINTS
LimitReachedLate(userRequests) == userRequests.count > RATE_LIMIT_POINTS

\* userRequests.count >= RATE_LIMIT_POINTS
LimitReached(userRequests) == userRequests.count >= RATE_LIMIT_POINTS

\* a request of reqIp goes through the middleware: next() is status 200
Request(reqIp) ==
    \E ip \in {ClientIp(reqIp)} :
        /\ IF WindowOver(ip)
           THEN /\ requestCounts' =
                       (ip :> [count |-> 1, resetTime |-> now + RATE_LIMIT_DURATION])
                       @@ requestCounts
                /\ served' = [ip |-> ip, status |-> 200]
           ELSE IF LimitReached(requestCounts[ip])
           THEN /\ UNCHANGED requestCounts
                /\ served' = [ip |-> ip, status |-> 429]
           ELSE /\ requestCounts' = [requestCounts EXCEPT ![ip].count = @ + 1]
                /\ served' = [ip |-> ip, status |-> 200]
        /\ TotalCount(requestCounts', DOMAIN requestCounts') <= MaxRequests
        /\ UNCHANGED <<now, engineVars, probe, procs, tables, toolVars,
                       shutdownVars>>

\* Date.now() moves on to t
Elapse(t) ==
    /\ t > now
    /\ t <= RATE_LIMIT_DURATION + MaxPast
    /\ now' = t
    /\ UNCHANGED <<requestCounts, served, engineVars, probe, procs, tables,
                   toolVars, shutdownVars>>

\* the reset times of the windows, and the instants up to MaxPast ms later
Instants ==
    {requestCounts[ip].resetTime + d : ip \in DOMAIN requestCounts, d \in 0..MaxPast}

NextHttp ==
    \/ \E reqIp \in ReqIps : Request(reqIp)
    \/ \E t \in Instants : Elapse(t)

SpecHttp == Init /\ [][NextHttp]_vars

-----------------------------------------------------------------------------
(* The graceful shutdown of the server process. The signal handlers run    *)
(* one at a time on the event loop; the callback of server.close runs      *)
(* later, and signals can arrive in between. After process.exit the        *)
(* process is gone and receives nothing.                                   *)

\* the most signals the process receives
MaxSignals == 6

Signals == {"SIGTERM", "SIGINT"}

\* process.exit was called
Exited == process.exitCalls > 0

\* mutant: the handler does not look at the flag
ShutdownStartedIgnored == FALSE

\* if (shuttingDown) return
ShutdownStarted == shuttingDown

\* main() calls setupGracefulShutdown(httpServer) in HTTP mode and
\* setupGracefulShutdown() in stdio mode
SetupGracefulShutdown(server) ==
    /\ ~process.handlers
    /\ process' = [process EXCEPT !.handlers = TRUE, !.server = server]
    /\ UNCHANGED <<shuttingDown, engineVars, probe, procs, tables, httpVars, toolVars>>

\* the process receives a signal: shutdown(signal)
Shutdown(signal) ==
    /\ process.handlers /\ ~Exited
    /\ Len(process.signals) < MaxSignals
    /\ IF ShutdownStarted
       THEN /\ process' = [process EXCEPT !.signals = Append(@, signal)]
            /\ UNCHANGED shuttingDown
       ELSE /\ shuttingDown' = TRUE
            /\ process' = IF process.server
                          THEN [process EXCEPT !.signals = Append(@, signal),
                                               !.closeCalls = @ + 1,
                                               !.closePending = TRUE]
                          ELSE [process EXCEPT !.signals = Append(@, signal),
                                               !.exitCalls = @ + 1]
    /\ UNCHANGED <<engineVars, probe, procs, tables, httpVars, toolVars>>

\* the HTTP server has closed: the callback of server.close calls
\* process.exit(0)
ServerClosed ==
    /\ process.closePending /\ ~Exited
    /\ process' = [process EXCEPT !.closePending = FALSE, !.exitCalls = @ + 1]
    /\ UNCHANGED <<shuttingDown, engineVars, probe, procs, tables, httpVars, toolVars>>

NextShutdown ==
    \/ \E server \in BOOLEAN : SetupGracefulShutdown(server)
    \/ \E signal \in Signals : Shutdown(signal)
    \/ ServerClosed

SpecShutdown == Init /\ [][NextShutdown]_vars

-----------------------------------------------------------------------------
(* The MCP tool handlers that send requests to the Botsify API. A handler  *)
(* runs up to its first await in one step and resumes when the API has     *)
(* answered; the answer of the API is any of the possible ones. requests   *)
(* holds the requests of the handler in flight, each with the call site    *)
(* that sent it.                                                           *)

TeamTools == {"toggleBotAccessForTeamMember", "resendInvitationToTeamMember",
              "toggleBotNotificationForTeamMember", "updateTeamMember",
              "deleteTeamMember"}

PageTools == {"updatePageMessage", "deletePageMessage"}

\* the arguments the handlers are called with
ConfirmationTexts ==
    {None, Some("DELETE DATA"), Some("delete data"), Some("DELETE DATA "), Some("")}

MemberIds == {None, Some(""), Some("7")}

Emails == {None, Some("a@b.c")}

PageMessageIds == {"12"}

SettingKeyArgs == {"", "hum", "foo", "website-chatbot-primary-color"}

SettingValueArgs == {"", "1"}

\* the keys of the catalog
CatalogKeys == {botSettingKeys[e].key : e \in DOMAIN botSettingKeys}

\* the texts the handlers answer with
ClearDataPrompt ==
    "Are you sure you want to delete ALL messages and user interactions up to today? This action is IRREVERSIBLE.\n\nTo confirm, please type 'DELETE DATA' in the 'confirmation' field."

MissingIdResponse ==
    "Please provide either a memberId or an email to identify the team member."

NotFoundResponse(a) ==
    "No team member found with "
    \o (IF a.memberId # None /\ a.memberId[1] # ""
        THEN "memberId: " \o a.memberId[1]
        ELSE "email: " \o (IF a.email = None THEN "undefined" ELSE a.email[1]))

ConfirmationResponse(member, name) ==
    "Found member:\n" \o member.id \o "\n\n" \o name
    \o ": Please respond with \"confirm: true\" to proceed."

PageConfirmationResponse(name, id) ==
    "Are you sure you want to "
    \o (IF name = "updatePageMessage" THEN "update" ELSE "delete")
    \o " page message with ID '" \o id
    \o "'? Please respond with 'confirm: true' to proceed."

\* memberId || email
Identifier(a) ==
    IF a.memberId # None /\ a.memberId[1] # "" THEN a.memberId[1]
    ELSE IF a.email # None /\ a.email[1] # "" THEN a.email[1]
    ELSE ""

\* mutant: the confirmation is compared after trimming
ConfirmedDeletionTrimmed(confirmation) ==
    confirmation # None /\ trim(confirmation[1]) = "DELETE DATA"

\* confirmation === "DELETE DATA"
ConfirmedDeletion(confirmation) == confirmation = Some("DELETE DATA")

\* mutant: the handler does not look at confirm
ConfirmedAlways(a) == TRUE

\* confirm, after the schema's default of false
Confirmed(a) == a.confirm

\* the request a tool sends to change or delete, for the member or message id
MutatingRequest(name, a, id) ==
    [site |-> name,
     method |-> CASE name = "toggleBotAccessForTeamMember"       -> "GET"
                  [] name = "resendInvitationToTeamMember"       -> "POST"
                  [] name = "toggleBotNotificationForTeamMember" -> "POST"
                  [] name = "updateTeamMember"                   -> "PUT"
                  [] name = "deleteTeamMember"                   -> "DELETE"
                  [] name = "updatePageMessage"                  -> "POST"
                  [] name = "deletePageMessage"                  -> "DELETE",
     path |-> CASE name = "toggleBotAccessForTeamMember" ->
                       "/v1/bot/team/" \o id \o "/change-access"
                [] name = "resendInvitationToTeamMember" ->
                       "/v1/bot/team/resend-invitation/" \o id
                [] name = "toggleBotNotificationForTeamMember" ->
                       "/v1/bot/team/email-notification/"
                       \o (IF a.notify THEN "1" ELSE "0") \o "/" \o id
                [] name = "updateTeamMember"  -> "/v1/bot/team/" \o id
                [] name = "deleteTeamMember"  -> "/v1/bot/team/" \o id
                [] name = "updatePageMessage" -> "/v1/page-message/update/" \o id
                [] name = "deletePageMessage" -> "/v1/page-message/" \o id \o "/delete",
     data |-> None]

\* the request of lookupTeamMember
LookupRequest(a) ==
    [site |-> "lookupTeamMember", method |-> "GET",
     path |-> "/v1/bot/team/" \o Identifier(a), data |-> None]

\* a handler that returned text, or threw
Responded(text) == [tool EXCEPT !.pc = "done", !.response = text]

\* clearBotData({confirmation}) is called and runs to its return or its await
ClearBotData(confirmation) ==
    /\ tool.pc \in {"idle", "done", "raised"}
    /\ LET t == [name |-> "clearBotData", pc |-> "awaiting",
                 args |-> [confirmation |-> confirmation],
                 member |-> None, steps |-> <<>>, response |-> ""]
       IN  IF ~ConfirmedDeletion(confirmation)
           THEN /\ tool' = [t EXCEPT !.pc = "done", !.response = ClearDataPrompt]
                /\ requests' = <<>>
           ELSE /\ tool' = t
                /\ requests' = <<[site |-> "clearBotData", method |-> "POST",
                                  path |-> "/v1/bot/delete-data",
                                  data |-> Some([confirmation |-> confirmation[1]])]>>
    /\ UNCHANGED <<engineVars, probe, procs, tables, httpVars, shutdownVars>>

\* a team tool is called: the schema, the identifier check, and the lookup
\* request
CallTeamTool(name, a) ==
    /\ tool.pc \in {"idle", "done", "raised"}
    /\ LET t == [name |-> name, pc |-> "lookup", args |-> a, member |-> None,
                 steps |-> <<>>, response |-> ""]
       IN  IF name = "deleteTeamMember" /\ ~a.confirm
           THEN \* the schema's refine(val => val) on confirm
                /\ tool' = [t EXCEPT !.pc = "raised",
                                     !.response = "You must explicitly confirm with the member before proceeding with deletion."]
                /\ requests' = <<>>
           ELSE IF Identifier(a) = ""
           THEN /\ tool' = [t EXCEPT !.pc = "done",
                                     !.steps = <<"missing-identifier check">>,
                                     !.response = MissingIdResponse]
                /\ requests' = <<>>
           ELSE /\ tool' = [t EXCEPT !.steps = <<"missing-identifier check", "lookup">>]
                /\ requests' = <<LookupRequest(a)>>
    /\ UNCHANGED <<engineVars, probe, procs, tables, httpVars, shutdownVars>>

\* what the lookup can come back with: a member, a member without id, or
\* nothing
LookupAnswers == {Some([id |-> "7"]), Some([id |-> ""]), None}

\* the lookup request of a team tool threw: the handler's catch answers
TeamLookupThrew ==
    /\ tool.pc = "lookup"
    /\ tool' = Responded(tool.name \o ": throws")
    /\ UNCHANGED requests
    /\ UNCHANGED <<engineVars, probe, procs, tables, httpVars, shutdownVars>>

\* the lookup of a team tool came back: the not-found check, the confirmation
\* check and the mutating request
TeamLookupAnswered(member) ==
    /\ tool.pc = "lookup"
    /\ IF member = None \/ member[1].id = ""
       THEN /\ tool' = [Responded(NotFoundResponse(tool.args)) EXCEPT
                           !.steps = tool.steps \o <<"not-found check">>]
            /\ UNCHANGED requests
       ELSE IF ~Confirmed(tool.args)
       THEN /\ tool' = [Responded(ConfirmationResponse(member[1], tool.name)) EXCEPT
                           !.member = member,
                           !.steps = tool.steps
                                     \o <<"not-found check", "confirmation check">>]
            /\ UNCHANGED requests
       ELSE /\ tool' = [tool EXCEPT
                           !.pc = "awaiting", !.member = member,
                           !.steps = tool.steps
                                     \o <<"not-found check", "confirmation check",
                                          "mutating request">>]
            /\ requests' = Append(requests,
                                  MutatingRequest(tool.name, tool.args, member[1].id))
    /\ UNCHANGED <<engineVars, probe, procs, tables, httpVars, shutdownVars>>

\* updatePageMessage or deletePageMessage is called
CallPageTool(name, a) ==
    /\ tool.pc \in {"idle", "done", "raised"}
    /\ LET t == [name |-> name, pc |-> "awaiting", args |-> a, member |-> None,
                 steps |-> <<>>, response |-> ""]
       IN  IF ~Confirmed(a)
           THEN /\ tool' = [t EXCEPT !.pc = "done",
                                     !.steps = <<"confirmation check">>,
                                     !.response = PageConfirmationResponse(name, a.id)]
                /\ requests' = <<>>
           ELSE /\ tool' = [t EXCEPT !.steps = <<"confirmation check", "mutating request">>]
                /\ requests' = <<MutatingRequest(name, a, a.id)>>
    /\ UNCHANGED <<engineVars, probe, procs, tables, httpVars, shutdownVars>>

\* UpdateBotSettingsSchema: key and value are strings of one character or more
UpdateSchemaAccepts(a) == Len(a.key) >= 1 /\ Len(a.value) >= 1

\* the key after the HTTP controller's special handling: the best hit of
\* this.fuse.search(args.key) replaces it when its score is below 0.5
BestKey(key, fuseResults) ==
    IF key # "" /\ fuseResults # <<>> /\ RLess(fuseResults[1].score, Rat(1, 2))
    THEN fuseResults[1].item.key
    ELSE key

\* the answers of the controller's fuse.search (threshold 0.3): no hit, or
\* one hit
ControllerAnswers ==
    {<<>>} \cup {<<[item |-> botSettingKeys[e], score |-> s]>> :
                    e \in {1, 3}, s \in {Rat(0, 1), Rat(1, 5)}}

\* updateBotSettings({key, value}), called by the MCP tool (via = "mcp") or
\* by the HTTP controller (via = "http")
UpdateBotSettings(via, key, value, fuseResults) ==
    /\ tool.pc \in {"idle", "done", "raised"}
    /\ via = "mcp" => fuseResults = <<>>
    /\ LET a == [key |-> IF via = "http" THEN BestKey(key, fuseResults) ELSE key,
                 value |-> value]
           t == [name |-> "updateBotSettings", pc |-> "awaiting",
                 args |-> [key |-> key, value |-> value, via |-> via],
                 member |-> None, steps |-> <<>>, response |-> ""]
       IN  IF ~UpdateSchemaAccepts(a)
           THEN /\ tool' = [t EXCEPT !.pc = "raised", !.response = "ValidationError"]
                /\ requests' = <<>>
           ELSE /\ tool' = t
                /\ requests' = <<[site |-> "updateBotSettings", method |-> "POST",
                                  path |-> "/bot/settings", data |-> Some(a)]>>
    /\ UNCHANGED <<engineVars, probe, procs, tables, httpVars, shutdownVars>>

\* what the API can answer a request with
ApiAnswers == {"success", "failure", "throws"}

\* the API answered the request the handler waits for
ApiAnswered(answer) ==
    /\ tool.pc = "awaiting"
    /\ tool' = Responded(tool.name \o ": " \o answer)
    /\ UNCHANGED requests
    /\ UNCHANGED <<engineVars, probe, procs, tables, httpVars, shutdownVars>>

NextTools ==
    \/ \E confirmation \in ConfirmationTexts : ClearBotData(confirmation)
    \/ \E name \in TeamTools, memberId \in MemberIds, email \in Emails,
          confirm \in BOOLEAN, notify \in BOOLEAN :
          /\ name # "toggleBotNotificationForTeamMember" => notify
          /\ CallTeamTool(name, [memberId |-> memberId, email |-> email,
                                 confirm |-> confirm, notify |-> notify])
    \/ \E member \in LookupAnswers : TeamLookupAnswered(member)
    \/ TeamLookupThrew
    \/ \E name \in PageTools, id \in PageMessageIds, confirm \in BOOLEAN :
          CallPageTool(name, [id |-> id, confirm |-> confirm])
    \/ \E via \in {"mcp", "http"}, key \in SettingKeyArgs, value \in SettingValueArgs,
          fuseResults \in ControllerAnswers :
          UpdateBotSettings(via, key, value, fuseResults)
    \/ \E answer \in ApiAnswers : ApiAnswered(answer)

SpecTools == Init /\ [][NextTools]_vars

-----------------------------------------------------------------------------
(* The helpers applied on their own, to any string.                        *)

\* the most keywords appended to a text
MaxAppended == 2

\* the strings normalizeText and extractValue are applied to
PureTexts ==
    {"", " ", "  \t ", "SET Main-Color TO Dark_Red!", "don't  stop", "a\tb",
     "--__--", "snake_case-and-kebab", " x = 5 ", "make hum = 5",
     "set a = 5 to 6", "put it as is to go", "x as y", "to be", "as to",
     "change the color to #112233", "set it as dark mode", "a to  ",
     "say hi, to all, as one", "price= 10 as total", "turn on"}

\* the texts the keywords of an entry are appended to
MonoTexts ==
    {"set", " ", "set primary", "change main color",
     "update the chatbot color now"}

\* the entries that have keywords
KeywordEntries == {e \in DOMAIN botSettingKeys : botSettingKeys[e].keywords # <<>>}

\* up to MaxAppended keywords of entry e, in any order
KeywordLists(e) ==
    UNION {[1..len -> Range(botSettingKeys[e].keywords)] : len \in 1..MaxAppended}

\* the text with the keywords appended verbatim, each after a space
AppendKeywords(text, ks) == text \o " " \o join(ks)

\* what findSettingKey computes for a hit of entry e with the given score
ScoreOf(e, score, text) ==
    LET inputWords == InputWords(normalizeText(text))
    IN  [overlap |-> OverlapScore(e, inputWords),
         partialMatch |-> PartialMatch(e, inputWords),
         hybrid |-> HybridScore([item |-> botSettingKeys[e], score |-> score],
                                inputWords)]

\* normalizeText(text)
ProbeNormalize(text) ==
    /\ \E normalized \in {normalizeText(text)} :
          probe' = [op |-> "normalizeText", input |-> text,
                    output |-> normalized,
                    again |-> normalizeText(normalized)]
    /\ UNCHANGED <<engineVars, procs, tables, httpVars, toolVars, shutdownVars>>

\* extractValue(text)
ProbeExtract(text) ==
    /\ probe' = [op |-> "extractValue", input |-> text,
                 output |-> extractValue(text)]
    /\ UNCHANGED <<engineVars, procs, tables, httpVars, toolVars, shutdownVars>>

\* the scores of entry e in findSettingKey(text) and in findSettingKey of the
\* text with keywords of e appended, e being a hit of fuse.search both times
ProbeScores(text, e, ks, scoreBefore, scoreAfter) ==
    /\ probe' = [op |-> "findSettingKey", input |-> text, entry |-> e,
                 appended |-> ks,
                 scoreBefore |-> scoreBefore, scoreAfter |-> scoreAfter,
                 before |-> ScoreOf(e, scoreBefore, text),
                 after |-> ScoreOf(e, scoreAfter, AppendKeywords(text, ks))]
    /\ UNCHANGED <<engineVars, procs, tables, httpVars, toolVars, shutdownVars>>

\* the texts findSettingKey is applied to on its own
MatchTexts ==
    {"set human help form", " ", "set hum to X", "change main color",
     "what is the language", "delete-user-conversation-on-get-started"}

\* findSettingKey(text, normalizeText(text)) when fuse.search(text) answers
\* fuseResults: the overlap score of every entry, the hybrid score of every
\* hit, and what is returned
ProbeMatch(text, fuseResults) ==
    /\ \E inputWords \in {InputWords(normalizeText(text))} :
          probe' = [op |-> "match", input |-> text, fuseResults |-> fuseResults,
                    inputWords |-> inputWords,
                    overlapScores |-> [e \in DOMAIN botSettingKeys |->
                                          OverlapScore(e, inputWords)],
                    hybrids |-> [h \in DOMAIN fuseResults |->
                                    HybridScore(fuseResults[h], inputWords)],
                    output |-> findSettingKey(fuseResults, inputWords)]
    /\ UNCHANGED <<engineVars, procs, tables, httpVars, toolVars, shutdownVars>>

\* one helper is applied once
NextPure ==
    \/ probe = NoProbe /\ \E text \in PureTexts : ProbeNormalize(text)
    \/ probe = NoProbe /\ \E text \in PureTexts : ProbeExtract(text)
    \/ probe = NoProbe
          /\ \E text \in MonoTexts, e \in KeywordEntries, scoreBefore \in FuseScores,
                scoreAfter \in FuseScores :
                \E ks \in KeywordLists(e) :
                   ProbeScores(text, e, ks, scoreBefore, scoreAfter)
    \/ probe = NoProbe
          /\ \E text \in MatchTexts, fuseResults \in SpecAnswers :
                ProbeMatch(text, fuseResults)

SpecPure == Init /\ [][NextPure]_vars

-----------------------------------------------------------------------------
(* What the invocation in flight was given and computed.                   *)

Returned == Finished /\ result.kind = "returned"

\* some phrase of the category occurs in the text
HasPhrase(category, normalizedText) ==
    \E c \in DOMAIN intentKeywords :
        /\ intentKeywords[c][1] = category
        /\ \E k \in DOMAIN intentKeywords[c][2] :
              includes(normalizedText, intentKeywords[c][2][k])

\* the category the priority get, update, delete gives the text
IntentByPriority(normalizedText) ==
    IF HasPhrase("get", normalizedText) THEN "get"
    ELSE IF HasPhrase("update", normalizedText) THEN "update"
    ELSE IF HasPhrase("delete", normalizedText) THEN "delete"
    ELSE "null"

\* what fuse.search answered to the invocation in flight
Hits == fuseIndex[args.text]

\* the hybrid scores of the hits of the invocation in flight, in search
\* order, for the words of its normalized text
Hybrids ==
    CHOOSE hs \in {[h \in DOMAIN Hits |->
                              HybridScore(Hits[h], Range(split(locals.normalizedText)))]} :
              TRUE

\* the hits of hs no other hit has a greater hybrid score than
BestOf(hs) == {h \in DOMAIN hs : \A o \in DOMAIN hs : ~RLess(hs[h], hs[o])}

-----------------------------------------------------------------------------
(* The claims.                                                             *)

\* C1 (as stated): for every catalog entry e and keyword k of e, the text
\* 'set ' + k + ' to X' without an explicit value resolves to success = true,
\* intent = update, key = e.key and value = 'X'.
C1_KeywordResolves ==
    \A e \in DOMAIN botSettingKeys :
        \A k \in Range(botSettingKeys[e].keywords) :
            (Finished /\ args.text = SetKeywordText(k) /\ args.value = None)
            => /\ result.kind = "returned"
               /\ result.success
               /\ result.intent = "update"
               /\ result.key = Some(botSettingKeys[e].key)
               /\ result.value = Some("X")

\* C2: an invocation with an empty text raises the ValidationError and
\* returns no result object.
C2_EmptyTextRaises ==
    /\ (Finished /\ args.text = "") => (pc = "Raised" /\ result = ValidationError)
    /\ \A c \in DOMAIN calls :
          calls[c].args.text = "" => calls[c].result = ValidationError

C2_Witness == pc = "Raised" /\ args.text = "" /\ result = ValidationError

\* C3: an invocation with a non-empty text, with or without an explicit
\* value, returns a result object and never raises; an unrecognised intent
\* and a low key confidence are reported as success = false in it.
C3_NonEmptyTextReturns ==
    (Finished /\ args.text # "")
    => /\ result.kind = "returned"
       /\ locals.intent = "null" => ~result.success
       /\ (locals.intent # "null" /\ LowConfidence(locals.key, locals.confidence))
          => ~result.success

C3_Witness ==
    /\ Returned /\ args.text = " " /\ args.value = Some("Red")
    /\ ~result.success

\* C4: when the normalized text contains no trigger phrase of any category,
\* the result is success = false, intent = none, confidence = 0 with the
\* message 'Unable to determine user intent'.
C4_NoTriggerPhrase ==
    (Finished /\ args.text # ""
        /\ \A c \in DOMAIN intentKeywords :
              ~HasPhrase(intentKeywords[c][1], locals.normalizedText))
    => /\ result.kind = "returned"
       /\ result.success = FALSE
       /\ result.intent = "null"
       /\ result.confidence = Zero
       /\ result.message = "Unable to determine user intent"

C4_Witness ==
    /\ pc = "FailedNoIntent" /\ args.text = "banana parade"
    /\ result.intent = "null" /\ result.confidence = Zero

\* C5: the detected intent is the first category, in the order get, update,
\* delete, with a phrase occurring in the normalized text, and none exactly
\* when no phrase occurs: a text with a get phrase and a delete phrase is a
\* get wherever the phrases stand, and delete needs the absence of every
\* get and update phrase.
C5_IntentByPriority ==
    (pc \in {"IntentResolved", "KeyResolved", "Done", "FailedNoIntent",
             "FailedLowConfidence"})
    => /\ locals.intent = IntentByPriority(locals.normalizedText)
       /\ Finished => result.intent = locals.intent
       /\ locals.intent = "delete"
          => /\ ~HasPhrase("get", locals.normalizedText)
             /\ ~HasPhrase("update", locals.normalizedText)

C5_Witness ==
    /\ Finished /\ args.text = "delete this and show me"
    /\ result.intent = "get"

C7_PossibleMatchesListed ==
    (pc = "FailedLowConfidence" /\ Hits # <<>>)
    => result.possibleMatches = Some(TopKeys(Hits))

\* C8 (as stated): whenever an intent is recognised and an explicit value is
\* supplied, any string of the schema, the value of the result is that
\* explicit value.
C8_ExplicitValueKept ==
    (Returned /\ locals.intent # "null" /\ args.value # None)
    => result.value = args.value

\* C8 (amended): whenever an intent is recognised and a non-empty explicit
\* value is supplied, the value of the result is that explicit value; an
\* empty explicit value counts as none for an update (the result carries the
\* value extracted from the text, or none) and is returned as it is for a
\* get or a delete.
C8_NonEmptyExplicitValueKept ==
    (Returned /\ locals.intent # "null" /\ args.value # None)
    => IF args.value = Some("") /\ locals.intent = "update"
       THEN result.value = extractValue(locals.normalizedText)
       ELSE result.value = args.value

C8_Witness ==
    /\ Returned /\ locals.intent = "update" /\ args.value = Some("Red")
    /\ extractValue(locals.normalizedText) = Some("x")
    /\ result.value = Some("Red")

\* C9 (as stated): the value extracted is the text that follows ' to ' or
\* ' as ' as it was written: '#112233' for 'change the color to #112233' and
\* 'dark mode' for 'set it as dark mode'.
C9_ExtractAsWritten ==
    (Returned /\ args.value = None)
    => /\ args.text = "change the color to #112233"
          => result.value = Some("#112233")
       /\ args.text = "set it as dark mode" => result.value = Some("dark mode")

\* C10: two invocations with the same text and value return the same result,
\* whatever was invoked before or between them.
C10_SameArgsSameResult ==
    /\ \A c, d \in DOMAIN calls :
          calls[c].args = calls[d].args => calls[c].result = calls[d].result
    /\ Finished
       => \A c \in DOMAIN calls : calls[c].args = args => calls[c].result = result

C10_Witness ==
    /\ Len(calls) = 3
    /\ calls[1].args = calls[3].args
    /\ calls[2].args.text # calls[1].args.text
    /\ calls[1].result = calls[3].result
    /\ calls[1].result.kind = "returned"

-----------------------------------------------------------------------------
(* The scores of findSettingKey.                                           *)

\* x <= y
RLeq(x, y) == ~RLess(y, x)

InUnitInterval(x) == RLeq(Zero, x) /\ RLeq(x, One)

\* the helper of that name was applied on its own
Probed(op) == probe.op = op

\* C11 (as stated): appending keywords of an entry to the text never decreases
\* the hybrid score findSettingKey computes for that entry.
C11_HybridNeverDecreases ==
    Probed("findSettingKey") => RLeq(probe.before.hybrid, probe.after.hybrid)

\* C11 (amended): for a text with at least one word and an entry that is a hit
\* for the text and for the text with keywords of the entry appended, the
\* overlap score does not decrease and the partial-match boost is not lost, so
\* the hybrid score does not decrease when the similarity score of the hit is
\* no worse for the longer text.
C11_HybridNeverDecreasesForSameSimilarity ==
    (Probed("findSettingKey") /\ normalizeText(probe.input) # "")
    => /\ RLeq(probe.before.overlap, probe.after.overlap)
       /\ probe.before.partialMatch => probe.after.partialMatch
       /\ RLeq(probe.scoreAfter, probe.scoreBefore)
          => RLeq(probe.before.hybrid, probe.after.hybrid)

C11_Witness ==
    /\ Probed("findSettingKey")
    /\ probe.input = "set primary" /\ botSettingKeys[probe.entry].key = "website-chatbot-primary-color"
    /\ probe.appended = <<"main color", "theme color">>
    /\ probe.scoreBefore = probe.scoreAfter
    /\ RLess(probe.before.overlap, probe.after.overlap)
    /\ RLess(probe.before.hybrid, probe.after.hybrid)

\* C12 (as stated): the confidence smartBotSettings returns, and the
\* similarity, overlap and hybrid score of every candidate, lie in [0, 1].
C12_ScoresInUnitInterval ==
    /\ Returned => InUnitInterval(result.confidence)
    /\ (Returned /\ locals.intent # "null")
       => \A h \in DOMAIN Hits :
             /\ InUnitInterval(RSub(One, Hits[h].score))
             /\ InUnitInterval(OverlapScore(FindIndex(Hits[h].item.key),
                                            Range(split(locals.normalizedText))))
             /\ InUnitInterval(Hybrids[h])

-----------------------------------------------------------------------------
(* normalizeText and extractValue on their own.                            *)

\* a character that ends a word: white space, hyphen or underscore
IsSeparator(c) == IsSpace(c) \/ c \in {"-", "_"}

\* a letter or a digit
IsAlphaNumeric(c) ==
    c \in CharsOf(UpperCase) \cup CharsOf(LowerCase) \cup CharsOf(Digits)

\* the maximal runs of s without a separator, in order
Tokens(s) ==
    LET starts == {p \in 1..Len(s) :
                      ~IsSeparator(Chr(s, p)) /\ (p = 1 \/ IsSeparator(Chr(s, p - 1)))}
        EndOf(p) == CHOOSE q \in p..Len(s) :
                        /\ \A r \in p..q : ~IsSeparator(Chr(s, r))
                        /\ (q = Len(s) \/ IsSeparator(Chr(s, q + 1)))
        Nth(k) == CHOOSE p \in starts : Cardinality({q \in starts : q < p}) = k - 1
    IN  [k \in 1..Cardinality(starts) |-> SubSeq(s, Nth(k), EndOf(Nth(k)))]

\* the letters and digits of a token, in lower case
Cleaned(token) ==
    Concat([p \in 1..Len(token) |->
               IF IsAlphaNumeric(Chr(token, p)) THEN LowerChar(Chr(token, p)) ELSE ""],
           1, Len(token))

IsWord(token) == token # ""

\* the words of s, one space between them
NormalForm(s) ==
    join(SelectSeq([k \in DOMAIN Tokens(s) |-> Cleaned(Tokens(s)[k])], IsWord))

\* C19: normalizeText is defined for every string and gives what lower-casing,
\* then replacing hyphens and underscores by spaces, then removing what is
\* neither a word character nor white space, then collapsing white space and
\* trimming give: the words of the text, in lower case, without punctuation,
\* one space between them; the empty string gives the empty string.
C19_NormalizeSteps ==
    Probed("normalizeText")
    => /\ probe.output = NormalForm(probe.input)
       /\ probe.input = "" => probe.output = ""

C19_Witness ==
    /\ Probed("normalizeText")
    /\ probe.input = "SET Main-Color TO Dark_Red!"
    /\ probe.output = "set main color to dark red"

\* C20: extractValue returns the trimmed capture of the first of the patterns
\* ' to ', '= ', ' as ' that matches, and none when no pattern matches.
C20_FirstPatternWins ==
    Probed("extractValue")
    => LET to == RegexCapture(probe.input, " to ")
           eq == RegexCapture(probe.input, "= ")
           as == RegexCapture(probe.input, " as ")
       IN  probe.output = IF to # None THEN Some(trim(to[1]))
                          ELSE IF eq # None THEN Some(trim(eq[1]))
                          ELSE IF as # None THEN Some(trim(as[1]))
                          ELSE None

C20_Witness ==
    /\ Probed("extractValue")
    /\ probe.input = "put it as is to go"
    /\ probe.output = Some("go")

-----------------------------------------------------------------------------
(* Termination.                                                            *)

\* C14: every invocation of smartBotSettings terminates: it returns a result
\* or raises the validation failure.
C14_EveryCallTerminates ==
    (pc = "Start")
    ~> (/\ pc \in {"Done", "FailedNoIntent", "FailedLowConfidence", "Raised"}
        /\ result.kind \in {"returned", "raised"})

\* a second invocation came back after the loops over the trigger phrases,
\* the patterns, the catalog and the hits
C14_Witness ==
    /\ Len(calls) = 1 /\ pc = "Done"
    /\ locals.intent = "update" /\ locals.extractedValue = Some("x")
    /\ Len(fuseIndex[args.text]) = HistMaxHits
    /\ result.kind = "returned"

-----------------------------------------------------------------------------
(* Concurrent invocations.                                                 *)

\* the result of smartBotSettings(a) run alone, when fuse.search answers
\* fuseResults: botSettingsTools.ts lines 276-337 as one step
SoloResult(a, fuseResults) ==
    IF ~SchemaAccepts(a) THEN ValidationError
    ELSE LET normalizedText == normalizeText(a.text)
             intent         == detectIntent(normalizedText)
             extractedValue == ResolveValue(a.value, intent, normalizedText)
             match          == findSettingKey(fuseResults,
                                              Range(split(normalizedText)))
         IN  IF intent = "null" THEN NoIntentResult
             ELSE IF LowConfidence(match.key, match.confidence)
             THEN LowConfidenceResult(intent, extractedValue, match)
             ELSE SuccessResult([normalizedText |-> normalizedText,
                                 intent         |-> intent,
                                 extractedValue |-> extractedValue,
                                 key            |-> match.key,
                                 confidence     |-> match.confidence])

FinishedBy(p) ==
    procs[p].pc \in {"Done", "FailedNoIntent", "FailedLowConfidence", "Raised"}

\* the answer of the search index to a text, as far as it was asked
AnswerTo(text) == IF text \in DOMAIN fuseIndex THEN fuseIndex[text] ELSE <<>>

ResultsAsAlone ==
    \A p \in Procs :
        FinishedBy(p) =>
            procs[p].result = SoloResult(procs[p].args, AnswerTo(procs[p].args.text))

\* C13: however the steps of concurrent invocations interleave, each
\* invocation returns what it returns when run alone, and no step writes the
\* catalog, the trigger table or the search index (an answer the index gave
\* stays its answer, and copies handed out by getAvailableSettings stay
\* equal to the catalog).
C13_ConcurrentCallsIndependent ==
    /\ [](/\ ResultsAsAlone
          /\ \A p \in Procs :
                procs[p].settings \in {None, Some(botSettingKeys)})
    /\ [][/\ tables' = tables
          /\ \A text \in DOMAIN fuseIndex :
                text \in DOMAIN fuseIndex' /\ fuseIndex'[text] = fuseIndex[text]]_vars

\* two invocations with different texts overlapped, and both came back
C13_Witness ==
    /\ FinishedBy(1) /\ FinishedBy(2)
    /\ procs[2].overlapped
    /\ procs[1].args.text = "set hum to X" /\ procs[1].result.kind = "returned"
    /\ procs[2].args.text = "clear the language" /\ procs[2].result.kind = "returned"
    /\ procs[1].result # procs[2].result
    /\ tables.botSettingKeys = botSettingKeys

-----------------------------------------------------------------------------
(* The tool handlers and their requests.                                   *)

\* C15: updateBotSettings accepts only keys of botSettingKeys: every update
\* request it sends carries a key of the catalog, and a call with another
\* key is rejected with an error.
C15_OnlyCatalogKeysUpdated ==
    tool.name = "updateBotSettings" =>
        /\ \A i \in DOMAIN requests : requests[i].data[1].key \in CatalogKeys
        /\ (tool.args.via = "mcp" /\ tool.args.key \notin CatalogKeys)
               => tool.pc = "raised"

\* C17: clearBotData sends its request only for the confirmation
\* 'DELETE DATA', letter for letter; for any other confirmation, or none, it
\* sends nothing and returns the confirmation prompt.
C17_DeleteOnlyOnExactConfirmation ==
    tool.name = "clearBotData" =>
        /\ requests # <<>> =>
               /\ tool.args.confirmation = Some("DELETE DATA")
               /\ requests = <<[site |-> "clearBotData", method |-> "POST",
                                path |-> "/v1/bot/delete-data",
                                data |-> Some([confirmation |-> "DELETE DATA"])]>>
        /\ tool.args.confirmation # Some("DELETE DATA") =>
               /\ requests = <<>>
               /\ tool.pc = "done"
               /\ tool.response = ClearDataPrompt

\* a confirmation that differs by a trailing space was answered with the
\* prompt
C17_Witness ==
    /\ tool.name = "clearBotData"
    /\ tool.args.confirmation = Some("DELETE DATA ")
    /\ tool.pc = "done" /\ tool.response = ClearDataPrompt
    /\ requests = <<>>

TeamToolOrder ==
    <<"missing-identifier check", "lookup", "not-found check",
      "confirmation check", "mutating request">>

\* C18: the team and page message tools send their mutating request only
\* when confirm is true; a team tool sends it only as its second request,
\* after the lookup by the given identifier returned a member with an id,
\* and its checks run in the order of TeamToolOrder.
C18_MutationOnlyAfterConfirm ==
    /\ tool.name \in TeamTools \cup PageTools =>
           \A i \in DOMAIN requests :
               requests[i].site = tool.name => tool.args.confirm
    /\ tool.name \in TeamTools =>
           /\ Len(tool.steps) <= Len(TeamToolOrder)
           /\ tool.steps = SubSeq(TeamToolOrder, 1, Len(tool.steps))
           /\ \A i \in DOMAIN requests :
                  requests[i].site = tool.name =>
                      /\ i = 2
                      /\ Identifier(tool.args) # ""
                      /\ requests[1] = LookupRequest(tool.args)
                      /\ tool.member # None /\ tool.member[1].id # ""
                      /\ requests[2] = MutatingRequest(tool.name, tool.args,
                                                       tool.member[1].id)
                      /\ tool.steps = TeamToolOrder
    /\ tool.name \in PageTools =>
           requests \in {<<>>, <<MutatingRequest(tool.name, tool.args, tool.args.id)>>}

\* deleteTeamMember, by email and confirmed, sent the lookup and then the
\* DELETE for the member it found
C18_Witness ==
    /\ tool.name = "deleteTeamMember"
    /\ tool.args.memberId = None /\ tool.args.email = Some("a@b.c")
    /\ tool.args.confirm
    /\ tool.pc = "done"
    /\ Len(requests) = 2
    /\ requests[1].path = "/v1/bot/team/a@b.c"
    /\ requests[2].method = "DELETE" /\ requests[2].path = "/v1/bot/team/7"

-----------------------------------------------------------------------------
(* The rate limiter.                                                       *)

CountsWithinLimit ==
    \A ip \in DOMAIN requestCounts :
        /\ requestCounts[ip].count >= 1
        /\ requestCounts[ip].count <= RATE_LIMIT_POINTS

\* a request of served'.ip went through the middleware in this step
RequestStep == requestCounts' # requestCounts \/ served' # served

\* the window of ip is open at the time of the step
InOpenWindow(ip) ==
    ip \in DOMAIN requestCounts /\ ~(now > requestCounts[ip].resetTime)

RequestStepAsClaimed ==
    LET ip == served'.ip
    IN  /\ DOMAIN requestCounts' = DOMAIN requestCounts \cup {ip}
        /\ \A other \in DOMAIN requestCounts \ {ip} :
               requestCounts'[other] = requestCounts[other]
        /\ ~InOpenWindow(ip) =>
               /\ served'.status = 200
               /\ requestCounts'[ip] =
                      [count |-> 1, resetTime |-> now + RATE_LIMIT_DURATION]
        /\ (InOpenWindow(ip) /\ requestCounts[ip].count >= RATE_LIMIT_POINTS) =>
               /\ served'.status = 429
               /\ requestCounts' = requestCounts
        /\ (InOpenWindow(ip) /\ requestCounts[ip].count < RATE_LIMIT_POINTS) =>
               /\ served'.status = 200
               /\ requestCounts'[ip] =
                      [count |-> requestCounts[ip].count + 1,
                       resetTime |-> requestCounts[ip].resetTime]

\* C16: per client IP the limiter passes at most 100 requests in a window:
\* the count of a window stays between 1 and 100; a request of an IP without
\* a window, or arriving strictly after the reset time, passes and opens a
\* window with count 1; a request in an open window passes and adds 1 to the
\* count while it is below 100, and is answered 429 with the count unchanged
\* otherwise; a request never changes the entry of another IP.
C16_RateLimitPerIpWindow ==
    /\ []CountsWithinLimit
    /\ [][RequestStep => RequestStepAsClaimed]_vars

\* the 101st request of an address, arriving at the very reset time of its
\* window, was answered 429, while the requests without address have their
\* own window
C16_Witness ==
    /\ served = [ip |-> "10.0.0.1", status |-> 429]
    /\ requestCounts["10.0.0.1"].count = RATE_LIMIT_POINTS
    /\ now = requestCounts["10.0.0.1"].resetTime
    /\ "unknown" \in DOMAIN requestCounts
    /\ requestCounts["unknown"].count = 1

-----------------------------------------------------------------------------
(* The value of the result.                                                *)

\* C21 (as stated): the value is extracted from the text only for an update
\* without an explicit value, so in every other case the result carries the
\* explicit value as it was given; a get or a delete without an explicit
\* value returns no value.
C21_ExtractionOnlyForUpdateWithoutValue ==
    (Returned /\ locals.intent # "null")
    => /\ result.value # args.value
          => (locals.intent = "update" /\ args.value = None)
       /\ (locals.intent \in {"get", "delete"} /\ args.value = None)
          => result.value = None

\* C21 (amended): the value is extracted from the text only for an update
\* whose explicit value is absent or the empty string; a get or a delete
\* without an explicit value returns no value.
C21_ExtractionOnlyForUpdateWithoutUsableValue ==
    (Returned /\ locals.intent # "null")
    => /\ result.value # args.value
          => /\ locals.intent = "update"
             /\ args.value \in {None, Some("")}
             /\ result.value = extractValue(locals.normalizedText)
       /\ (locals.intent \in {"get", "delete"} /\ args.value = None)
          => result.value = None

\* an update with the empty explicit value came back with the value of the
\* text
C21_Witness ==
    /\ Returned /\ locals.intent = "update"
    /\ args.text = "set hum to X" /\ args.value = Some("")
    /\ result.value = Some("x")

-----------------------------------------------------------------------------
(* findSettingKey on its own.                                              *)

\* the words of the normalized combined text of an entry: key, description
\* and keywords in one text, normalized
CombinedWords(entry) ==
    LET text == normalizeText(join(<<entry.key, entry.description>> \o entry.keywords))
    IN  IF text = "" THEN <<>> ELSE split(text)

\* the share of the words of ws that are input words
ShareIn(ws, inputWords) ==
    IF ws = <<>> THEN Zero
    ELSE Rat(Cardinality({i \in DOMAIN ws : ws[i] \in inputWords}), Len(ws))

\* C22 (as stated): the overlap score of every catalog entry is the number of
\* words of its normalized combined text that are in the word set of the
\* normalized input, divided by the number of words of that text, whatever
\* the similarity search answered.
C22_OverlapIsShareOfEntryWords ==
    Probed("match")
    => \A e \in DOMAIN botSettingKeys :
          probe.overlapScores[e] = ShareIn(CombinedWords(botSettingKeys[e]),
                                           probe.inputWords)

\* some input word is a substring of some word of the normalized key
BoostedKey(key, inputWords) ==
    \E word \in inputWords :
        \E k \in Range(split(normalizeText(key))) : includes(k, word)

\* h = ((1 - s) + o + b / 5) / 2 for the rationals h, s, o and the integer b,
\* by cross multiplication
IsHybridOf(h, s, o, b) ==
    h.n * 2 * s.d * o.d * 5
        = h.d * (5 * (s.d - s.n) * o.d + 5 * o.n * s.d + b * s.d * o.d)

\* C23: the hybrid score of every hit of the similarity search is
\* (similarity + overlap + 0.2) / 2 when some input word is a substring of
\* some word of the hit's normalized key, and (similarity + overlap) / 2
\* otherwise, the similarity being 1 minus the score of the hit.
C23_HybridFormula ==
    Probed("match")
    => \A h \in DOMAIN probe.fuseResults :
          LET hit == probe.fuseResults[h]
              e == CHOOSE i \in DOMAIN botSettingKeys :
                      botSettingKeys[i].key = hit.item.key
          IN  IsHybridOf(probe.hybrids[h], hit.score, probe.overlapScores[e],
                         IF BoostedKey(hit.item.key, probe.inputWords)
                         THEN 1 ELSE 0)

\* a boosted hit and a hit without the boost in one answer
C23_Witness ==
    /\ Probed("match") /\ probe.input = "set hum to X"
    /\ Len(probe.fuseResults) = 2
    /\ probe.fuseResults[1].item.key = "human-help-form"
    /\ probe.fuseResults[2].item.key = "language"
    /\ BoostedKey("human-help-form", probe.inputWords)
    /\ ~BoostedKey("language", probe.inputWords)
    /\ probe.fuseResults[1].score = Rat(1, 5)
    /\ probe.hybrids[1] = Rat(1, 2)

\* the first of the hits with the greatest hybrid score
FirstBest(hs) == CHOOSE h \in BestOf(hs) : \A o \in BestOf(hs) : h <= o

\* C24: findSettingKey returns the key and the hybrid score of the hit with
\* the greatest hybrid score, and of the first such hit in the order of the
\* similarity search when several hits share the greatest score.
C24_FirstOfTheBestSelected ==
    (Probed("match") /\ probe.fuseResults # <<>>)
    => /\ probe.output.key
             = Some(probe.fuseResults[FirstBest(probe.hybrids)].item.key)
       /\ probe.output.confidence = probe.hybrids[FirstBest(probe.hybrids)]
       /\ \A h \in DOMAIN probe.hybrids :
             ~RLess(probe.output.confidence, probe.hybrids[h])

\* two hits share the greatest hybrid score and the first one was selected
C24_Witness ==
    /\ Probed("match") /\ Len(probe.fuseResults) = 2
    /\ probe.hybrids[1] = probe.hybrids[2]
    /\ probe.fuseResults[1].item.key = "language"
    /\ probe.fuseResults[2].item.key = "human-help-form"
    /\ probe.output.key = Some("language")

-----------------------------------------------------------------------------
(* The results of smartBotSettings.                                        *)

\* C25: when the similarity search answers with no hit, the invocation
\* returns success = false with no key, confidence 0 and an empty
\* possibleMatches.
C25_NoHitFails ==
    (Returned /\ args.text \in DOMAIN fuseIndex /\ fuseIndex[args.text] = <<>>
        /\ locals.intent # "null")
    => /\ pc = "FailedLowConfidence"
       /\ result.success = FALSE
       /\ result.key = None
       /\ result.confidence = Zero
       /\ result.possibleMatches = Some(<<>>)
       /\ result.message = "Low confidence in key match"

C25_Witness ==
    /\ pc = "FailedLowConfidence" /\ args.text = "set hum to X"
    /\ fuseIndex[args.text] = <<>>
    /\ result.intent = "update" /\ result.value = Some("x")
    /\ result.confidence = Zero /\ result.possibleMatches = Some(<<>>)

\* the steps of smartBotSettings the claim allows
StepsInOrder ==
    \/ pc' = pc
    \/ pc = "idle" /\ pc' = "Start"
    \/ pc = "Start" /\ pc' \in {"IntentResolved", "FailedNoIntent", "Raised"}
    \/ pc = "IntentResolved" /\ pc' \in {"KeyResolved", "FailedLowConfidence"}
    \/ pc = "KeyResolved" /\ pc' = "Done"
    \/ pc \in {"Done", "FailedNoIntent", "FailedLowConfidence", "Raised"} /\ pc' = "idle"

\* C26: an invocation goes through Start, IntentResolved, KeyResolved and
\* Done in that order; the similarity search and the key matching run only
\* in the step that leaves IntentResolved, with a recognised intent; an
\* invocation with an unrecognised intent ends in Failed(NoIntent) with no
\* value extracted and no key matched; Failed(LowConfidence) is entered from
\* IntentResolved only.
C26_StatesInOrder ==
    /\ [][/\ StepsInOrder
          /\ (fuseIndex' # fuseIndex \/ locals'.key # locals.key
                \/ locals'.extractedValue # locals.extractedValue)
             => (pc = "IntentResolved" /\ locals.intent # "null")
          /\ (pc' = "FailedLowConfidence" /\ pc # pc') => pc = "IntentResolved"
          /\ (pc' = "Done" /\ pc # pc') => pc = "KeyResolved"]_vars
    /\ [](/\ pc \in {"IntentResolved", "KeyResolved", "Done", "FailedLowConfidence"}
             => locals.intent # "null"
          /\ pc = "FailedNoIntent"
             => /\ locals.intent = "null"
                /\ locals.extractedValue = None /\ locals.key = None
                /\ result.value = None /\ result.key = None
                /\ args.text \notin DOMAIN fuseIndex)

\* an invocation went through every state to Done
C26_Witness ==
    /\ pc = "Done" /\ result.success
    /\ locals.intent = "update" /\ locals.extractedValue = Some("x")
    /\ locals.key = Some("human-help-form")
    /\ args.text \in DOMAIN fuseIndex


-----------------------------------------------------------------------------
(* The graceful shutdown.                                                  *)

\* a step in which the process receives a signal
SignalStep == Len(process'.signals) = Len(process.signals) + 1

\* C27: the shutdown sequence runs at most once per process: server.close
\* and process.exit are each called at most once; a signal of either kind
\* that arrives when shuttingDown is set calls neither of them again; and
\* shuttingDown never returns to false
C27_ShutdownRunsOnce ==
    /\ [](process.closeCalls <= 1 /\ process.exitCalls <= 1)
    /\ [][/\ shuttingDown => shuttingDown'
          /\ (shuttingDown /\ SignalStep) =>
                /\ process'.closeCalls = process.closeCalls
                /\ process'.exitCalls = process.exitCalls
                /\ process'.closePending = process.closePending]_vars

\* an HTTP server that received signals of both kinds, the first a SIGINT,
\* two of them while the server was still closing, and then closed and
\* exited once
C27_Witness ==
    /\ process.server /\ shuttingDown
    /\ Len(process.signals) >= 3
    /\ process.signals[1] = "SIGINT"
    /\ \E i \in 2..Len(process.signals) : process.signals[i] = "SIGTERM"
    /\ \E i \in 2..Len(process.signals) : process.signals[i] = "SIGINT"
    /\ process.closeCalls = 1 /\ process.exitCalls = 1

-----------------------------------------------------------------------------
(* The shape of the results and of the values in them.                     *)

NormalChars == CharsOf(LowerCase) \cup CharsOf(Digits) \cup {" "}

\* only lower-case letters, digits and spaces, each space between two
\* characters that are not spaces
IsNormal(s) ==
    \A p \in 1..Len(s) :
        /\ Chr(s, p) \in NormalChars
        /\ Chr(s, p) = " " => /\ 1 < p /\ p < Len(s)
                              /\ Chr(s, p - 1) # " "
                              /\ Chr(s, p + 1) # " "

\* C29: normalizeText is idempotent, and its output holds only lower-case
\* ASCII letters, digits and single spaces, with no space at either end
C29_NormalizeIdempotent ==
    Probed("normalizeText")
    => /\ probe.again = probe.output
       /\ IsNormal(probe.output)

\* a text with upper case, an apostrophe and two spaces in a row, normalized
\* once and once more
C29_Witness ==
    /\ Probed("normalizeText")
    /\ probe.input = "don't  stop"
    /\ probe.output = "dont stop"
    /\ probe.again = "dont stop"


\* what follows the first occurrence of sub in s
AfterFirst(s, sub) ==
    LET at == {p \in 1..(Len(s) - Len(sub) + 1) : SubSeq(s, p, p + Len(sub) - 1) = sub}
        first == CHOOSE p \in at : \A q \in at : p <= q
    IN  SubSeq(s, first + Len(sub), Len(s))

\* the value was taken from the text, not from the value argument
ValueExtracted ==
    /\ Returned /\ locals.intent = "update"
    /\ args.value \in {None, Some("")}
    /\ result.value # None

\* C30: smartBotSettings extracts the value from the normalized text: the
\* pattern '= ' never matches it, and a value extracted from the text holds
\* only lower-case letters, digits and single spaces and is all that follows
\* the first ' to ' of the normalized text or, when that text has no ' to ',
\* all that follows its first ' as '
C30_ValueIsRestOfNormalizedText ==
    /\ (Returned /\ locals.intent # "null")
       => RegexCapture(locals.normalizedText, "= ") = None
    /\ ValueExtracted
       => /\ IsNormal(result.value[1])
          /\ includes(locals.normalizedText, " to ") \/ includes(locals.normalizedText, " as ")
          /\ result.value[1] =
                IF includes(locals.normalizedText, " to ")
                THEN AfterFirst(locals.normalizedText, " to ")
                ELSE AfterFirst(locals.normalizedText, " as ")

\* a text with ' as ' before its first ' to ', and both once more after it:
\* the value is all that follows the first ' to '
C30_Witness ==
    /\ ValueExtracted
    /\ args.text = "Make it as 1_2 to 3-4  as 5 to 6"
    /\ locals.normalizedText = "make it as 1 2 to 3 4 as 5 to 6"
    /\ result.value = Some("3 4 as 5 to 6")

=============================================================================
